---- MODULE Spec2Model ----
(***************************************************************************)
(* Model of the RTA transcript pollers of pkmuru/copilot-trans:            *)
(*   src/index.js           poller that decodes with res.json() and wraps  *)
(*                          each detail fetch in a try/catch   ("index")   *)
(*   src/unnamed/part_001   poller that decodes with safeJson and has no   *)
(*                          per-fragment try/catch             ("decoder") *)
(*   src/unnamed/part_000   poller that calls the Kiota request adapter:   *)
(*                          no token, no retry loop, no decoder  ("sdk")   *)
(* Each is one sequential async loop.  fetchWithRetry is the same loop in  *)
(* the first two files; only the message of the Error it throws differs.   *)
(*                                                                         *)
(* Strings are read character by character; a response body is a sequence *)
(* of tokens (pieces of its text), so that JSON.parse is computed.         *)
(*                                                                         *)
(* Specifications:                                                         *)
(*   Spec        run() of index and decoder against every server behaviour *)
(*   SpecSdk     run() of sdk against every behaviour of the adapter       *)
(*   SpecLive    run() of decoder without end                              *)
(*   SpecFetch   one fetchWithRetry call, attempt by attempt               *)
(*   SpecDecode  one safeJson call on every response                       *)
(*   SpecPretty  one call of the pretty printer of each file               *)
(***************************************************************************)
EXTENDS Integers, Sequences, FiniteSets, TLC

VARIABLES
  pc,               \* control point of run(): start, loop, list, items, detail, catch,
                    \* sleepInTry, sleep, exited
  variant,          \* which poller file runs: "index", "decoder" or "sdk"
  token,            \* run(): let token   (0 = none yet; k = k-th token acquired)
  tokenAcquiredAt,  \* run(): let tokenAcquiredAt (ms)
  now,              \* Date.now() (ms)
  seen,             \* run(): const seen = new Set()
  seen0,            \* the seen set as it was when the current iteration began
  items,            \* the array iterated by for (const t of items)
  idx,              \* position of the for loop in items
  err,              \* the error caught by the outer catch
  log,              \* what this iteration did so far, in order
  iter,             \* number of completed poll-interval sleeps
  announced,        \* per id: number of 'NEW transcript fragment' blocks printed
  fetched,          \* per id: number of getTranscript calls
  fw,               \* state of one fetchWithRetry call (specification SpecFetch)
  dec,              \* input and result of one safeJson call (specification SpecDecode)
  pp                \* input and output of one prettyPrintTranscript call (SpecPretty)

vars == <<pc, variant, token, tokenAcquiredAt, now, seen, seen0, items, idx, err, log,
          iter, announced, fetched, fw, dec, pp>>

pollerVars == <<pc, variant, token, tokenAcquiredAt, now, seen, seen0, items, idx, err, log,
                iter, announced, fetched>>

-----------------------------------------------------------------------------
(* Program constants *)

MaxAttempts == 5
BackoffBaseMs == 1000
BackoffCapMs == 32000
RefreshMinutes == 50
POLL_MS == "2000"

(* Bounds of the model *)

MaxIter == 2        \* poll-interval sleeps explored in a run
MaxItems == 2       \* longest list response
MaxKeys == 3        \* most members present in an object given to prettyPrintTranscript

-----------------------------------------------------------------------------
(* JavaScript values *)

UNDEF == "<undefined>"
NULLV == "<null>"

\* mutant: a || b
CoalesceFalsy(a, b) == IF a \in {UNDEF, NULLV, ""} THEN b ELSE a

\* a ?? b
Coalesce(a, b) == IF a \in {UNDEF, NULLV} THEN b ELSE a

\* truthiness of a string-or-nullish value: !x is true for undefined, null and ''
TruthyStr(x) == x \notin {UNDEF, NULLV, ""}

-----------------------------------------------------------------------------
(* Strings: a string is a TLA+ string, read character by character.  A      *)
(* string of the model holds no character above U+00FF but for U+1680 and   *)
(* U+FEFF; "~" is written for the character U+2026 of safeJson's snippet.   *)

\* s[i - 1]
Char(s, i) == SubSeq(s, i, i)

\* s.slice(from), from counted from 0
SliceFrom(s, from) == SubSeq(s, from + 1, Len(s))

\* s.slice(from, to)
Slice(s, from, to) ==
  SubSeq(s, (IF from < Len(s) THEN from ELSE Len(s)) + 1, IF to < Len(s) THEN to ELSE Len(s))

\* String.prototype.includes
Includes(s, needle) ==
  \E i \in 1..(Len(s) - Len(needle) + 1) : SubSeq(s, i, i + Len(needle) - 1) = needle

\* s.indexOf(c) + 1 for a character that occurs in s
IndexOf(s, c) == CHOOSE i \in 1..Len(s) : Char(s, i) = c /\ \A j \in 1..(i - 1) : Char(s, j) # c

AllIn(s, chars) == \A i \in 1..Len(s) : Includes(chars, Char(s, i))

StartsWith(s, prefix) == Len(s) >= Len(prefix) /\ SubSeq(s, 1, Len(prefix)) = prefix

\* The WhiteSpace and LineTerminator characters, which trim() and Number()
\* skip: space, U+0009 to U+000D, and after the escapes the characters U+000B,
\* U+00A0, U+1680 and U+FEFF themselves.  The others (U+2000 to U+200A, U+2028,
\* U+2029, U+202F, U+205F, U+3000) are in no string of the model.
Whitespace == " \t\n\r\f  ﻿"

\* String.prototype.trim: s from its first character that is not whitespace
\* to its last one
TrimStr(s) ==
  LET P == {i \in 1..Len(s) : ~Includes(Whitespace, Char(s, i))}
  IN  IF P = {} THEN ""
      ELSE SubSeq(s, CHOOSE i \in P : \A j \in P : i <= j, CHOOSE i \in P : \A j \in P : i >= j)

\* An HTTP header as headers.get() sees it: null when absent, else its text.
NoHeader == [present |-> FALSE, v |-> ""]
Header(v) == [present |-> TRUE, v |-> v]

\* truthiness of headers.get(..): null and '' are falsy
HeaderTruthy(h) == h.present /\ h.v # ""

-----------------------------------------------------------------------------
(* Numbers.  A JavaScript number is an IEEE-754 double:                      *)
(*   [k |-> "fin", neg, m, e]   the number (-1)^neg * m * 2^e, where m is    *)
(*                              odd and below 2^53, or m = 0 and e = 0 (neg  *)
(*                              then tells -0 from 0);                       *)
(*   [k |-> "inf", neg, ..]     Infinity and -Infinity;                      *)
(*   [k |-> "nan", ..]          NaN.                                         *)
(* Every double has one such record, so = is the identity of doubles.  m is  *)
(* a natural number written in limbs of 15 bits, the least significant first *)
(* and the last one not 0 (0 is <<>>): m = m[1] + m[2] * 2^15 + ..           *)

Limb == 32768

RECURSIVE Pow(_, _)
Pow(b, n) == IF n = 0 THEN 1 ELSE b * Pow(b, n - 1)

\* the limbs of a natural number that fits an integer of the model
RECURSIVE BigOf(_)
BigOf(i) == IF i = 0 THEN <<>> ELSE <<i % Limb>> \o BigOf(i \div Limb)

\* the integer that a natural number below 2^31 is
RECURSIVE BigToInt(_)
BigToInt(a) == IF a = <<>> THEN 0 ELSE a[1] + Limb * BigToInt(Tail(a))

\* limbs without leading zero limbs (x is a, computed once)
BigNorm(a) ==
  CHOOSE r \in {SubSeq(x, 1, CHOOSE n \in 0..Len(x) :
                               (n = 0 \/ x[n] # 0) /\ \A j \in (n + 1)..Len(x) : x[j] = 0) :
                 x \in {a}} : TRUE

\* The limbs lo..hi of v[1] + v[2] * 2^15 + .. + c, for integers v[i] that need
\* not be limbs, and after them the carry out of them; the range is carried by
\* halves.
RECURSIVE Carry(_, _, _, _)
Carry(v, c, lo, hi) ==
  IF lo > hi THEN <<c>>
  ELSE IF lo = hi THEN <<(v[lo] + c) % Limb, (v[lo] + c) \div Limb>>
  ELSE LET left == Carry(v, c, lo, (lo + hi) \div 2)
       IN  SubSeq(left, 1, Len(left) - 1)
             \o Carry(v, left[Len(left)], (lo + hi) \div 2 + 1, hi)

\* a * k + c, for k and c of one limb at most
BigMulSmall(a, k, c) == BigNorm(Carry([i \in 1..Len(a) |-> a[i] * k], c, 1, Len(a)))

\* a + b + c, for c of one limb at most (x is a and y is b, each computed once)
BigAdd(a, b, c) ==
  CHOOSE r \in {BigNorm(Carry([i \in 1..(IF Len(x) > Len(y) THEN Len(x) ELSE Len(y)) |->
                                 (IF i <= Len(x) THEN x[i] ELSE 0)
                                 + (IF i <= Len(y) THEN y[i] ELSE 0)],
                              c, 1, IF Len(x) > Len(y) THEN Len(x) ELSE Len(y))) :
                 x \in {a}, y \in {b}} : TRUE

\* a - b, for a >= b
BigSub(a, b) ==
  CHOOSE r \in {BigNorm(Carry([i \in 1..Len(x) |-> x[i] - (IF i <= Len(y) THEN y[i] ELSE 0)],
                              0, 1, Len(x))) : x \in {a}, y \in {b}} : TRUE

\* the sign of a - b
BigCmp(a, b) ==
  CHOOSE r \in {IF Len(x) # Len(y) THEN (IF Len(x) > Len(y) THEN 1 ELSE 0 - 1)
                 ELSE IF x = y THEN 0
                 ELSE IF \E i \in 1..Len(x) :
                           x[i] > y[i] /\ \A j \in (i + 1)..Len(x) : x[j] = y[j]
                      THEN 1 ELSE 0 - 1 : x \in {a}, y \in {b}} : TRUE

\* a * 2^n
BigShl(a, n) == BigNorm([i \in 1..(n \div 15) |-> 0] \o BigMulSmall(a, Pow(2, n % 15), 0))

\* a \div 2^n
BigShr(a, n) ==
  BigNorm([i \in 1..(Len(a) - n \div 15) |->
             a[i + n \div 15] \div Pow(2, n % 15)
             + ((IF i + n \div 15 < Len(a) THEN a[i + n \div 15 + 1] ELSE 0) % Pow(2, n % 15))
               * Pow(2, 15 - (n % 15))])

\* a * b, by halves of the limbs of b
RECURSIVE BigMul(_, _)
BigMul(a, b) ==
  IF a = <<>> \/ b = <<>> THEN <<>>
  ELSE IF Len(b) = 1 THEN BigMulSmall(a, b[1], 0)
  ELSE BigAdd(BigMul(a, SubSeq(b, 1, Len(b) \div 2)),
              BigNorm([i \in 1..(Len(b) \div 2) |-> 0]
                        \o BigMul(a, SubSeq(b, Len(b) \div 2 + 1, Len(b)))), 0)

\* b^n, by halves
RECURSIVE BigPow(_, _)
BigPow(b, n) ==
  IF n = 0 THEN <<1>>
  ELSE IF n = 1 THEN BigOf(b)
  ELSE BigMul(BigPow(b, n \div 2), BigPow(b, n - n \div 2))

\* the number of bits of a: 0 for 0, else the n with 2^(n-1) <= a < 2^n
BigBitLen(a) ==
  IF a = <<>> THEN 0
  ELSE 15 * (Len(a) - 1)
       + (CHOOSE n \in 1..15 : Pow(2, n - 1) <= a[Len(a)] /\ a[Len(a)] < Pow(2, n))

NaN == [k |-> "nan", neg |-> FALSE, m |-> <<>>, e |-> 0]
Infinity == [k |-> "inf", neg |-> FALSE, m |-> <<>>, e |-> 0]

\* the double that is exactly (-1)^neg * m * 2^e; z is the number of 0 bits
\* that m ends with
Dbl(neg, m, e) ==
  IF m = <<>> THEN [k |-> "fin", neg |-> neg, m |-> <<>>, e |-> 0]
  ELSE CHOOSE r \in {[k |-> "fin", neg |-> neg, m |-> BigShr(x, z), e |-> e + z] :
                       x \in {m},
                       z \in {n \in 0..(15 * Len(m) - 1) :
                                /\ m[n \div 15 + 1] % Pow(2, (n % 15) + 1) # 0
                                /\ m[n \div 15 + 1] % Pow(2, n % 15) = 0
                                /\ \A j \in 1..(n \div 15) : m[j] = 0}} : TRUE

\* an integer of the model as a number
Num(i) == Dbl(i < 0, BigOf(IF i < 0 THEN 0 - i ELSE i), 0)

\* n more bits of a long division by t, from the quotient q and the remainder
\* r so far (r < 2 * t): the bits are taken by halves, and one bit is 1 when t
\* can be taken from r, what is left being doubled for the next bit.  With
\* nothing left, the bits are 0.
RECURSIVE Quotient(_, _, _)
Quotient(st, t, n) ==
  IF st.r = <<>> THEN [q |-> BigShl(st.q, n), r |-> <<>>]
  ELSE IF n > 1 THEN Quotient(Quotient(st, t, n \div 2), t, n - n \div 2)
  ELSE IF BigCmp(st.r, t) >= 0
       THEN [q |-> BigMulSmall(st.q, 2, 1), r |-> BigMulSmall(BigSub(st.r, t), 2, 0)]
       ELSE [q |-> BigMulSmall(st.q, 2, 0), r |-> BigMulSmall(st.r, 2, 0)]

\* (q + a fraction below 1, not 0 when sticky) * 2^f, for a q of 55 or 56
\* bits, rounded to the 53 bits of a double, or to fewer where the double is
\* subnormal (a multiple of 2^-1074): the last d bits are rounded away, to the
\* nearest, a tie to the even one; Infinity from 2^1024 on.
RoundBits(neg, q, sticky, f) ==
  LET d == IF f + BigBitLen(q) - 53 < 0 - 1074 THEN 0 - 1074 - f ELSE BigBitLen(q) - 53
      M == BigShr(q, d)
      c == BigCmp(BigSub(q, BigShl(M, d)), BigShl(<<1>>, d - 1))
      R == IF c > 0 \/ (c = 0 /\ (sticky \/ (M # <<>> /\ M[1] % 2 = 1)))
           THEN BigAdd(M, <<>>, 1) ELSE M
  IN  IF BigBitLen(R) + f + d > 1024 THEN [Infinity EXCEPT !.neg = neg]
      ELSE Dbl(neg, R, f + d)

\* The double nearest to (-1)^neg * p / q * 2^E, for naturals p and q > 0.  sh
\* is the shift that gives the quotient qs, computed once, 55 or 56 bits.
Round(neg, p, q, E) ==
  IF p = <<>> THEN Dbl(neg, p, 0)
  ELSE IF q = <<1>> /\ BigBitLen(p) <= 53 /\ E >= 0 - 1074 /\ BigBitLen(p) + E <= 1024
       THEN Dbl(neg, p, E)
       ELSE LET sh == 55 - (BigBitLen(p) - BigBitLen(q))
            IN  CHOOSE r \in
                  {RoundBits(neg, qs.q, qs.r # <<>>, E - sh) :
                     qs \in {Quotient([q |-> <<>>, r |-> IF sh >= 0 THEN BigShl(p, sh) ELSE p],
                                      BigShl(q, 55 + (IF sh >= 0 THEN 0 ELSE 0 - sh)), 56)}} : TRUE

\* x * y
Times(x, y) ==
  IF x.k = "nan" \/ y.k = "nan" THEN NaN
  ELSE IF x.k = "inf" \/ y.k = "inf"
       THEN (IF (x.k = "fin" /\ x.m = <<>>) \/ (y.k = "fin" /\ y.m = <<>>) THEN NaN
             ELSE [Infinity EXCEPT !.neg = (x.neg # y.neg)])
       ELSE Round(x.neg # y.neg, BigMul(x.m, y.m), <<1>>, x.e + y.e)

\* x + y.  a and b are x and y in units of 2^e, the smaller of the two
\* exponents; a sum that is 0 is -0 only as -0 + -0.
Plus(x, y) ==
  IF x.k = "nan" \/ y.k = "nan" THEN NaN
  ELSE IF x.k = "inf" THEN (IF y.k = "inf" /\ y.neg # x.neg THEN NaN ELSE x)
  ELSE IF y.k = "inf" THEN y
  ELSE LET e == IF x.e < y.e THEN x.e ELSE y.e
       IN  CHOOSE r \in
             {Round(IF x.neg = y.neg \/ BigCmp(a, b) > 0 THEN x.neg ELSE BigCmp(a, b) < 0 /\ y.neg,
                    IF x.neg = y.neg THEN BigAdd(a, b, 0)
                    ELSE IF BigCmp(a, b) >= 0 THEN BigSub(a, b) ELSE BigSub(b, a),
                    <<1>>, e) :
                a \in {BigShl(x.m, x.e - e)}, b \in {BigShl(y.m, y.e - e)}} : TRUE

\* x > y: x - y, which is x + -y, is above 0
Gt(x, y) ==
  \E d \in {Plus(x, [y EXCEPT !.neg = ~@])} :
    d.k # "nan" /\ ~d.neg /\ (d.k = "inf" \/ d.m # <<>>)

\* Math.min(x, y)
MathMin(x, y) ==
  IF x.k = "nan" \/ y.k = "nan" THEN NaN
  ELSE IF Gt(x, y) THEN y ELSE IF Gt(y, x) THEN x ELSE IF x.neg THEN x ELSE y

\* the value of a digit, of any base up to 16
DigitVal(c) ==
  IF Includes("0123456789abcdef", c) THEN IndexOf("0123456789abcdef", c) - 1
  ELSE IndexOf("0123456789ABCDEF", c) - 1

\* the value of the digits s in base b
RECURSIVE DigitsVal(_, _)
DigitsVal(s, b) ==
  IF s = "" THEN <<>>
  ELSE IF Len(s) = 1 THEN BigOf(DigitVal(s))
  ELSE BigAdd(BigMul(DigitsVal(SubSeq(s, 1, Len(s) \div 2), b), BigPow(b, Len(s) - Len(s) \div 2)),
              DigitsVal(SubSeq(s, Len(s) \div 2 + 1, Len(s)), b), 0)

\* 0x.., 0o.. and 0b..: digits of the base after the prefix, at least one
RadixLiteral(s, digits, base) ==
  IF Len(s) > 2 /\ AllIn(SliceFrom(s, 2), digits)
  THEN Round(FALSE, DigitsVal(SliceFrom(s, 2), base), <<1>>, 0)
  ELSE NaN

\* the part of s before the first of the characters cs, and the part after it
Before(s, cs) ==
  LET P == {i \in 1..Len(s) : Includes(cs, Char(s, i))}
  IN  IF P = {} THEN s ELSE SubSeq(s, 1, (CHOOSE i \in P : \A j \in P : i <= j) - 1)
After(s, cs) ==
  LET P == {i \in 1..Len(s) : Includes(cs, Char(s, i))}
  IN  IF P = {} THEN "" ELSE SliceFrom(s, CHOOSE i \in P : \A j \in P : i <= j)

\* s without the optional sign in front of it
Unsigned(s) == IF StartsWith(s, "+") \/ StartsWith(s, "-") THEN SliceFrom(s, 1) ELSE s

\* StrUnsignedDecimalLiteral: digits, a fraction and an exponent.  The value
\* is the double nearest to digits * 10^shift, for an exponent written in at
\* most 16 bits (a longer one counts as 99999); digits is below
\* 10^Len(digits), so that beyond 10^310 the nearest double is Infinity and
\* below 10^-330 it is 0.  digits and shift are computed once.
DecimalLiteral(s) ==
  LET mant == Before(s, "eE")
      hasExp == mant # s
      ex == After(s, "eE")
      exDigits == Unsigned(ex)
      ip == Before(mant, ".")
      fp == After(mant, ".")
      wellFormed ==
        /\ AllIn(ip, "0123456789") /\ AllIn(fp, "0123456789") /\ ip \o fp # ""
        /\ hasExp => exDigits # "" /\ AllIn(exDigits, "0123456789")
      e == IF ~hasExp THEN 0
           ELSE (IF StartsWith(ex, "-") THEN 0 - 1 ELSE 1)
                * (IF BigBitLen(DigitsVal(exDigits, 10)) > 16 THEN 99999
                   ELSE BigToInt(DigitsVal(exDigits, 10)))
  IN  IF ~wellFormed THEN NaN
      ELSE CHOOSE r \in
             {IF digits = <<>> \/ Len(ip \o fp) + shift < 0 - 330 THEN Num(0)
              ELSE IF shift > 310 THEN Infinity
              ELSE Round(FALSE,
                         IF shift >= 0 THEN BigMul(BigPow(5, shift), digits) ELSE digits,
                         IF shift >= 0 THEN <<1>> ELSE BigPow(5, 0 - shift), shift) :
                digits \in {DigitsVal(ip \o fp, 10)}, shift \in {e - Len(fp)}} : TRUE

\* Number(string): StringToNumber of ECMAScript. '' and whitespace are 0.
Number(str) ==
  LET s == TrimStr(str)
      u == Unsigned(s)
      v == IF u = "Infinity" THEN Infinity ELSE DecimalLiteral(u)
  IN  IF s = "" THEN Num(0)
      ELSE IF StartsWith(s, "0x") \/ StartsWith(s, "0X") THEN RadixLiteral(s, "0123456789abcdefABCDEF", 16)
      ELSE IF StartsWith(s, "0o") \/ StartsWith(s, "0O") THEN RadixLiteral(s, "01234567", 8)
      ELSE IF StartsWith(s, "0b") \/ StartsWith(s, "0B") THEN RadixLiteral(s, "01", 2)
      ELSE IF StartsWith(s, "-") /\ v.k # "nan" THEN [v EXCEPT !.neg = ~@] ELSE v

\* the longest delay of a timer
TimeoutMax == 2147483647

\* The delay of setTimeout(res, ms) in Node: a delay that is not in 1..TimeoutMax
\* (NaN, 0, a negative number, Infinity) is 1, and a fraction is truncated.
TimerDelay(ms) ==
  IF ms.k = "fin" /\ ~Gt(Num(1), ms) /\ ~Gt(ms, Num(TimeoutMax))
  THEN BigToInt(IF ms.e >= 0 THEN BigShl(ms.m, ms.e) ELSE BigShr(ms.m, 0 - ms.e))
  ELSE 1

-----------------------------------------------------------------------------
(* fetchWithRetry *)

\* res.ok
IsOk(status) == status >= 200 /\ status <= 299

\* mutant: the attempt bound tested with <=
ShouldRetryInclusive(status, attempt) ==
  (status = 429 \/ status = 503) /\ attempt <= MaxAttempts

\* mutant: every server error retried
ShouldRetryServerErrors(status, attempt) ==
  (status = 429 \/ status >= 500) /\ attempt < MaxAttempts

ShouldRetry(status, attempt) ==
  (status = 429 \/ status = 503) /\ attempt < MaxAttempts

\* mutant: the exponent counted from 0
BackoffFromZero(attempt) ==
  MathMin(Num(BackoffCapMs), Times(Num(BackoffBaseMs), Dbl(FALSE, <<1>>, attempt - 1)))

\* Math.min(32000, 1000 * 2 ** attempt)
Backoff(attempt) == MathMin(Num(BackoffCapMs), Times(Num(BackoffBaseMs), Dbl(FALSE, <<1>>, attempt)))

\* mutant: the header tested as a number (0 and NaN fall back to the backoff)
RetryWaitNumeric(ra, attempt) ==
  IF HeaderTruthy(ra) /\ Gt(Number(ra.v), Num(0)) THEN Times(Number(ra.v), Num(1000))
  ELSE Backoff(attempt)

RetryWait(ra, attempt) ==
  IF HeaderTruthy(ra) THEN Times(Number(ra.v), Num(1000)) ELSE Backoff(attempt)

\* The state of a call before its first attempt.
FetchStart == [attempt |-> 0, waits |-> <<>>, resps |-> <<>>, st |-> "running"]

\* One turn of the while (true) loop, the fetch having answered r.
FetchStep(f, r) ==
  LET attempt == f.attempt + 1
      g == [f EXCEPT !.attempt = attempt, !.resps = Append(@, r)]
  IN  IF IsOk(r.status) THEN [g EXCEPT !.st = "returned"]
      ELSE IF ShouldRetry(r.status, attempt)
           THEN [g EXCEPT !.waits = Append(@, RetryWait(r.ra, attempt))]
           ELSE [g EXCEPT !.st = "thrown"]

RECURSIVE FetchRun(_, _)
FetchRun(f, script) ==
  IF f.st # "running" \/ script = <<>> THEN f
  ELSE FetchRun(FetchStep(f, Head(script)), Tail(script))

\* A whole call against a server that answers with script, in order.
FetchWithRetry(script) == FetchRun(FetchStart, script)

\* How far Date.now() has moved when the call settles: by its sleeps (the clock
\* is taken not to move while a request is in flight).
RECURSIVE SumDelays(_)
SumDelays(waits) ==
  IF waits = <<>> THEN <<>>
  ELSE BigAdd(BigOf(TimerDelay(Head(waits))), SumDelays(Tail(waits)), 0)

Elapsed(script) == SumDelays(FetchWithRetry(script).waits)

-----------------------------------------------------------------------------
(* Texts, JSON values and the two body decoders *)

\* A body text is a sequence of tokens, each a piece of the text (txt):
\*   "ws"    JSON whitespace (space, tab, CR, LF);
\*   "uws"   whitespace that trim() removes and JSON.parse rejects (form feed,
\*           U+000B, U+00A0, U+1680, U+FEFF);
\*   "doc"   one complete JSON text whose value (val) is an object, an array or
\*           null;
\*   "open"  the brace { of an object that the text does not go on to complete;
\*   "text"  anything else: it begins and ends with characters that are not
\*           whitespace, and its first character begins no JSON token.
Tok(kind, txt, val) == [kind |-> kind, txt |-> txt, val |-> val]

\* The string itself, as it is printed, measured or searched.
RECURSIVE Txt(_)
Txt(text) == IF text = <<>> THEN "" ELSE Head(text).txt \o Txt(Tail(text))

\* A JavaScript value as the pollers look at it: its type, the truthiness of its
\* _empty member, its _raw and _status members, whether its value member is an
\* array, and the array (value, or the value itself when it is an array).
JVal(t, e, r, st, isArr, arr) ==
  [t |-> t, _empty |-> e, _raw |-> r, _status |-> st, valueIsArray |-> isArr, arr |-> arr]

JUndefined == JVal("undefined", FALSE, "", 0, FALSE, <<>>)
JNull == JVal("null", FALSE, "", 0, FALSE, <<>>)
JPlainObject == JVal("object", FALSE, "", 0, FALSE, <<>>)
JEnvelope(arr) == JVal("object", FALSE, "", 0, TRUE, arr)
JArray(arr) == JVal("array", FALSE, "", 0, FALSE, arr)

\* { _empty: true, _status: status } and { _raw: text, _status: status }
EmptyMarker(status) == JVal("object", TRUE, "", status, FALSE, <<>>)
RawMarker(text, status) == JVal("object", FALSE, Txt(text), status, FALSE, <<>>)

\* if (v): objects and arrays are truthy; undefined, null, false, 0 and '' are not
Truthy(v) == v.t \in {"object", "array"}

\* v?._empty and v?._raw as conditions
HasEmpty(v) == v.t = "object" /\ v._empty
HasRaw(v) == v.t = "object" /\ v._raw # ""

Ws(txt) == Tok("ws", txt, JUndefined)
Uws(txt) == Tok("uws", txt, JUndefined)
Text(txt) == Tok("text", txt, JUndefined)
Open == Tok("open", "{", JUndefined)
Doc(txt, val) == Tok("doc", txt, val)

\* the tokens after the JSON whitespace at the head of text
RECURSIVE SkipJsonWs(_)
SkipJsonWs(text) ==
  IF text # <<>> /\ Head(text).kind = "ws" THEN SkipJsonWs(Tail(text)) ELSE text

\* JSON.parse: exactly one JSON text, with JSON whitespace around it.
JsonParses(text) ==
  LET a == SkipJsonWs(text)
  IN  a # <<>> /\ Head(a).kind = "doc" /\ SkipJsonWs(Tail(a)) = <<>>

JsonParse(text) == Head(SkipJsonWs(text)).val

\* Where and why JSON.parse gives up on a text that does not parse: pos is the
\* position, from 0, of the character it reports, rest being what is left of
\* the text there.
JsonError(text) ==
  LET a == SkipJsonWs(text)
      rest == IF a # <<>> /\ Head(a).kind \in {"doc", "open"} THEN SkipJsonWs(Tail(a)) ELSE a
      kind == IF a = <<>> THEN "EndOfInput"
              ELSE CASE Head(a).kind = "doc" -> "NonWhitespaceAfter"
                     [] Head(a).kind = "open" -> "ExpectedPropNameOrRBrace"
                     [] OTHER -> "UnexpectedToken"
  IN  [kind |-> kind, pos |-> Len(Txt(text)) - Len(Txt(rest))]

ContextChars == 10

\* the part of the source V8 quotes around position pos
JsonErrorContext(src, pos) ==
  LET q == "\""
  IN  IF Len(src) < 2 * ContextChars + 1 THEN q \o src \o q
      ELSE IF pos < ContextChars
           THEN q \o Slice(src, 0, pos + ContextChars) \o q \o "..."
      ELSE IF pos < Len(src) - ContextChars
           THEN "..." \o q \o Slice(src, pos - ContextChars, pos + ContextChars) \o q \o "..."
      ELSE "..." \o q \o SliceFrom(src, pos - ContextChars) \o q

\* The message of the SyntaxError of JSON.parse, as V8 words it in Node 20.
JsonErrorMsg(src, e) ==
  CASE e.kind = "EndOfInput" -> "Unexpected end of JSON input"
    [] e.kind = "NonWhitespaceAfter" ->
         "Unexpected non-whitespace character after JSON at position " \o ToString(e.pos)
    [] e.kind = "ExpectedPropNameOrRBrace" ->
         "Expected property name or '}' in JSON at position " \o ToString(e.pos)
    [] e.kind = "UnexpectedToken" ->
         IF src \in {"NaN", "Infinity", "undefined", "[object Object]"} THEN "\"" \o src \o "\" is not valid JSON"
         ELSE "Unexpected token '" \o Char(src, e.pos + 1) \o "', "
                \o JsonErrorContext(src, e.pos) \o " is not valid JSON"

\* What a call did: returned val (via names the branch that returned it), or threw
\* an Error with message msg (status is the HTTP status of an HTTP error, else 0).
Return(via, val) ==
  [tag |-> "return", via |-> via, val |-> val, kind |-> "none", status |-> 0, msg |-> ""]
Throw(kind, status, msg) ==
  [tag |-> "throw", via |-> "throw", val |-> JUndefined, kind |-> kind, status |-> status,
   msg |-> msg]

SnippetMax == 800

\* text.length > 800 ? text.slice(0, 800) + '...' : text, "~" being written for
\* the one character U+2026
Snippet(str) == IF Len(str) > SnippetMax THEN Slice(str, 0, SnippetMax) \o "~" ELSE str

DecodeErrorMsg(status, text) ==
  "Failed to parse JSON (status " \o ToString(status) \o "). Body starts with:\n"
    \o Snippet(Txt(text))

\* res.headers.get('content-type') || ''
ContentType(res) == IF HeaderTruthy(res.ct) THEN res.ct.v ELSE ""

\* mutant: the content type looked at before the body
safeJsonContentTypeFirst(res) ==
  IF res.status = 204 \/ res.status = 202 THEN Return("Empty", EmptyMarker(res.status))
  ELSE IF ~Includes(ContentType(res), "application/json")
       THEN Return("Raw", RawMarker(res.body, res.status))
  ELSE IF Txt(res.body) = "" \/ TrimStr(Txt(res.body)) = ""
       THEN Return("Empty", EmptyMarker(res.status))
  ELSE IF JsonParses(res.body) THEN Return("Parsed", JsonParse(res.body))
  ELSE Throw("DecodeError", 0, DecodeErrorMsg(res.status, res.body))

safeJson(res) ==
  IF res.status = 204 \/ res.status = 202 THEN Return("Empty", EmptyMarker(res.status))
  ELSE IF Txt(res.body) = "" \/ TrimStr(Txt(res.body)) = ""
       THEN Return("Empty", EmptyMarker(res.status))
  ELSE IF ~Includes(ContentType(res), "application/json")
       THEN Return("Raw", RawMarker(res.body, res.status))
  ELSE IF JsonParses(res.body) THEN Return("Parsed", JsonParse(res.body))
  ELSE Throw("DecodeError", 0, DecodeErrorMsg(res.status, res.body))

\* res.json() of src/index.js: the body parsed whatever the status and content
\* type; the SyntaxError of JSON.parse quotes the body.
resJson(res) ==
  IF JsonParses(res.body) THEN Return("Parsed", JsonParse(res.body))
  ELSE Throw("SyntaxError", 0, JsonErrorMsg(Txt(res.body), JsonError(res.body)))

\* An HTTP response as the code reads it.
Resp(status, statusText, ra, ct, body) ==
  [status |-> status, statusText |-> statusText, ra |-> ra, ct |-> ct, body |-> body]

-----------------------------------------------------------------------------
(* prettyPrintTranscript *)

\* The members prettyPrintTranscript reads, by their paths. A path through an
\* absent or null metadata, speaker or alternatives[0] reads undefined.
IdKeys == <<"id", "transcriptId", "metadata.id">>
CreatedKeys == <<"createdDateTime", "startDateTime", "timestamp", "metadata.createdDateTime">>
LangKeys == <<"language", "locale", "metadata.language">>
SpeakerKeys == <<"speakerId", "speaker.id", "participantId">>
TextKeys == <<"text", "content", "combinedText", "alternatives[0].text">>

Range(q) == {q[i] : i \in DOMAIN q}

PrettyKeys ==
  Range(IdKeys) \cup Range(CreatedKeys) \cup Range(LangKeys) \cup Range(SpeakerKeys)
    \cup Range(TextKeys)

\* An object: its members (undefined when absent), and whether its alternatives
\* member is an array (it may also be an object with a member named 0).
PrettyObj(f, altIsArray) == [f |-> f, altIsArray |-> altIsArray]

\* The member of obj at path k. obj.alternatives[0].text is read by src/index.js
\* as obj?.alternatives?.[0]?.text, by the other files only if Array.isArray.
Member(v, obj, k) ==
  IF k = "alternatives[0].text" /\ v # "index" /\ ~obj.altIsArray THEN UNDEF ELSE obj.f[k]

\* a ?? b ?? c and a ?? b ?? c ?? d over the members named by ks
RECURSIVE CoalesceKeys(_, _, _)
CoalesceKeys(v, obj, ks) ==
  IF Len(ks) = 1 THEN Member(v, obj, ks[1])
  ELSE Coalesce(Member(v, obj, ks[1]), CoalesceKeys(v, obj, Tail(ks)))

\* label ? `label: ${x}` : null
HeaderPart(label, x) == IF TruthyStr(x) THEN <<[label |-> label, v |-> x]>> ELSE <<>>

\* What prettyPrintTranscript prints: the parts of the header line, which it
\* joins with ' | ', and the text line if there is one.
prettyPrintTranscript(v, obj) ==
  LET id == Coalesce(CoalesceKeys(v, obj, IdKeys), "unknown")
      created == CoalesceKeys(v, obj, CreatedKeys)
      lang == CoalesceKeys(v, obj, LangKeys)
      speaker == CoalesceKeys(v, obj, SpeakerKeys)
      text == CoalesceKeys(v, obj, TextKeys)
  IN  [header |-> <<[label |-> "id", v |-> id]>> \o HeaderPart("created", created)
                    \o HeaderPart("lang", lang) \o HeaderPart("speaker", speaker),
       text |-> IF TruthyStr(text) THEN <<text>> ELSE <<>>]

\* pretty of src/unnamed/part_000: the same members, read through ?. and
\* Array.isArray, printed on one line.
pretty(obj) ==
  LET id == Coalesce(CoalesceKeys("sdk", obj, IdKeys), "unknown")
      ts == CoalesceKeys("sdk", obj, CreatedKeys)
      lang == CoalesceKeys("sdk", obj, LangKeys)
      speaker == CoalesceKeys("sdk", obj, SpeakerKeys)
      text == CoalesceKeys("sdk", obj, TextKeys)
  IN  [header |-> <<[label |-> "id", v |-> id]>> \o HeaderPart("created", ts)
                    \o HeaderPart("lang", lang) \o HeaderPart("speaker", speaker),
       text |-> IF TruthyStr(text) THEN <<text>> ELSE <<>>]

\* the sets of at most n members
RECURSIVE KeySets(_)
KeySets(n) ==
  IF n = 0 THEN {{}}
  ELSE LET P == KeySets(n - 1) IN P \cup {T \cup {k} : T \in P, k \in PrettyKeys}

\* what a member holds: null, '' or a string
MemberValue(k, kind) ==
  CASE kind = "null" -> NULLV [] kind = "empty" -> ""
    [] k = "transcriptId" -> "x" [] k = "locale" -> "en-US" [] k = "content" -> "hi"
    [] OTHER -> k

\* The object whose members S are present, each null, '' or a string as kinds
\* says. (A null obj, which only src/unnamed/part_001 can be given, reads through
\* ?. as the object with no member.)
PrettyObjOf(S, kinds, altIsArray) ==
  PrettyObj([k \in PrettyKeys |-> IF k \in S THEN MemberValue(k, kinds[k]) ELSE UNDEF],
            altIsArray)

PrettyIdle == [obj |-> PrettyObj([k \in PrettyKeys |-> UNDEF], TRUE),
               out |-> [header |-> <<>>, text |-> <<>>], done |-> FALSE]

-----------------------------------------------------------------------------
(* Inputs: what the servers may answer *)

JsonCT == Header("application/json")
TextCT == Header("text/plain")

Throttled(status, ra) == Resp(status, "Throttled", ra, NoHeader, <<>>)
Failed(status, body) == Resp(status, "Error", NoHeader, TextCT, body)
Ok(status, ct, body) == Resp(status, "OK", NoHeader, ct, body)

\* The answers one fetchWithRetry call is tried against. The Retry-After
\* headers: absent, empty, seconds (0, 2, 10, 2.5) and an HTTP date.
FetchResponses ==
  {Throttled(st, ra) :
     st \in {429, 503},
     ra \in {NoHeader, Header(""), Header("0"), Header("2"), Header("1.001"), Header("2.5"),
             Header("Wed, 21 Oct 2015 07:28:00 GMT")}}
    \cup {Failed(st, <<>>) : st \in {401, 404, 500}}
    \cup {Ok(200, JsonCT, <<Doc("{}", JPlainObject)>>), Ok(204, NoHeader, <<>>)}

\* The bodies safeJson is tried on.
DecodeBodies ==
  { <<>>,
    <<Ws(" ")>>,
    <<Uws("\f")>>,
    <<Ws("\n"), Uws("\f ﻿"), Ws(" ")>>,
    <<Text("hello")>>,
    <<Ws(" "), Text("hello"), Ws(" ")>>,
    <<Open, Text("bad")>>,
    <<Text("upstream said 401")>>,
    <<Doc("{}", JPlainObject)>>,
    <<Doc("null", JNull)>>,
    <<Ws(" "), Doc("{}", JPlainObject), Ws("\n")>>,
    <<Uws("\f"), Doc("{}", JPlainObject)>>,
    <<Doc("{}", JPlainObject), Doc("{}", JPlainObject)>>,
    <<Doc("{}", JPlainObject), Text("x")>>,
    <<Doc("{\"_empty\":true}", JVal("object", TRUE, "", 0, FALSE, <<>>))>> }

\* The responses safeJson is tried on.
DecodeInputs ==
  {Ok(st, ct, body) :
     st \in {200, 201, 202, 204},
     ct \in {NoHeader, Header(""), JsonCT, Header("application/json; charset=utf-8"),
             TextCT, Header("Application/JSON")},
     body \in DecodeBodies}

DecIdle == [res |-> Ok(200, NoHeader, <<>>), out |-> Return("", JUndefined), done |-> FALSE]

-----------------------------------------------------------------------------
(* The pollers: data *)

Variants == {"index", "decoder"}

\* The truthy identifiers that occur in list responses.
Ids == {"f1", "f2"}

\* the fragment whose announcement the progress claim awaits
Target == "f2"

\* In a run without end: the identifier of a fragment that the server has never
\* listed before.  Every response that lists it lists another such fragment.
Fresh == "g"

\* An element of the list array: an object with its id, transcriptId and
\* metadata.id members, or null.
Item(id, transcriptId, metaId) ==
  [isObj |-> TRUE, id |-> id, transcriptId |-> transcriptId, metaId |-> metaId]

\* the arrays a list response may hold
ItemLists ==
  UNION {[1..n -> {Item("f1", UNDEF, UNDEF), Item("f2", UNDEF, UNDEF),
                   Item(NULLV, "f1", UNDEF), Item(UNDEF, UNDEF, UNDEF),
                   [isObj |-> FALSE, id |-> UNDEF, transcriptId |-> UNDEF, metaId |-> UNDEF]}] :
           n \in 0..MaxItems}

ListVals ==
  {JEnvelope(a) : a \in ItemLists} \cup {JArray(a) : a \in ItemLists}
    \cup {JPlainObject, JNull,
          \* a parsed object that itself has a truthy _empty member
          JVal("object", TRUE, "", 0, TRUE, <<Item("f1", UNDEF, UNDEF)>>)}

Exhausted(status) == [i \in 1..MaxAttempts |-> Throttled(status, NoHeader)]

FailScripts == {<<Failed(401, <<>>)>>, <<Failed(500, <<>>)>>}

ListScripts ==
  {<<Ok(200, JsonCT, <<Doc("json", v)>>)>> : v \in ListVals}
    \cup {<<Ok(204, NoHeader, <<>>)>>,
          <<Ok(200, TextCT, <<Text("hello")>>)>>,
          <<Ok(200, JsonCT, <<Open, Text("bad")>>)>>,
          <<Ok(200, NoHeader, <<Doc("json", JEnvelope(<<Item("f1", UNDEF, UNDEF)>>))>>)>>}
    \* failures whose text contains the characters 401 though no status is 401
    \cup {<<Failed(500, <<Text("upstream said 401")>>)>>,
          <<Ok(200, JsonCT, <<Text("upstream said 401")>>)>>}
    \cup {<<Throttled(503, Header("2")), Ok(200, JsonCT, <<Doc("json", JEnvelope(<<Item("f2", UNDEF, UNDEF)>>))>>)>>}
    \cup FailScripts

\* the values a detail response may hold
DetailVals ==
  {JPlainObject, JNull,
   \* a parsed object that itself has a truthy _empty member
   JVal("object", TRUE, "", 0, TRUE, <<>>)}

DetailScripts ==
  {<<Ok(200, JsonCT, <<Doc("json", v)>>)>> : v \in DetailVals}
    \cup {<<Ok(204, NoHeader, <<>>)>>,
          <<Ok(200, TextCT, <<Text("hello")>>)>>,
          <<Ok(200, JsonCT, <<Open, Text("bad")>>)>>}
    \cup {<<Throttled(429, NoHeader), Ok(200, JsonCT, <<Doc("json", JPlainObject)>>)>>}
    \cup FailScripts

\* What cca.acquireTokenByClientCredential may do: give a token, give none
\* (getToken throws 'Failed to get app token'), or throw its own error.
TokenOutcomes ==
  { [ok |-> TRUE, msg |-> ""],
    [ok |-> FALSE, msg |-> "Failed to get app token"],
    [ok |-> FALSE, msg |-> "invalid_client: 401 Unauthorized"] }

\* The clock counts milliseconds in a natural number, written in limbs as the
\* numbers above are.  50 * 60 * 1000:
RefreshMs == BigOf(RefreshMinutes * 60 * 1000)

\* How far Date.now() may have moved when the timer of sleep(Number(POLL_MS))
\* fires: by the delay of the timer, or (a suspended process) by the whole
\* refresh age.
SleepAdvance == {BigOf(TimerDelay(Number(POLL_MS))), RefreshMs}

-----------------------------------------------------------------------------
(* The pollers: helpers *)

\* An entry of the log: what was done (e), for which id, with which token, a
\* number (n), and for a settled call how it settled (via) and its value (val).
Ev(e, id, tok, n) ==
  [e |-> e, id |-> id, tok |-> tok, n |-> n, via |-> "", val |-> JUndefined]

\* the entry of a call that settled as d: n is the HTTP status of an HTTP error
Settled(e, id, tok, d) ==
  [e |-> e, id |-> id, tok |-> tok, n |-> d.status, via |-> d.via, val |-> d.val]

NoErr == [kind |-> "none", msg |-> ""]
Err(kind, msg) == [kind |-> kind, msg |-> msg]

\* String(err.message || '').includes('401')
Includes401(msg) == Includes(msg, "401")

MeetingId == "m1"

\* The code of an ASCII character: low holds those of codes 32 to 95 and high
\* those of codes 97 to 126, in order.
CharCode(c) ==
  LET low == " !\"#$%&'()*+,-./0123456789:;<=>?@ABCDEFGHIJKLMNOPQRSTUVWXYZ[\\]^_"
      high == "abcdefghijklmnopqrstuvwxyz{|}~"
  IN  CASE c = "\t" -> 9 [] c = "\n" -> 10 [] c = "\f" -> 12 [] c = "\r" -> 13
        [] Includes(low, c) -> 31 + IndexOf(low, c)
        [] OTHER -> 96 + IndexOf(high, c)

\* %XX for the one byte of an ASCII character
PercentEncode(c) ==
  "%" \o Char("0123456789ABCDEF", (CharCode(c) \div 16) + 1)
      \o Char("0123456789ABCDEF", (CharCode(c) % 16) + 1)

\* Letters, digits and - _ . ! ~ * ' ( ) are left as they are; every other
\* character is escaped.
RECURSIVE Escape(_)
Escape(str) ==
  IF str = "" THEN ""
  ELSE (IF Includes("ABCDEFGHIJKLMNOPQRSTUVWXYZabcdefghijklmnopqrstuvwxyz0123456789-_.!~*'()",
                    Char(str, 1))
        THEN Char(str, 1)
        ELSE PercentEncode(Char(str, 1))) \o Escape(SliceFrom(str, 1))

\* encodeURIComponent escapes the string that its argument converts to:
\* 'undefined' for undefined and 'null' for null.
encodeURIComponent(str) ==
  Escape(IF str = UNDEF THEN "undefined" ELSE IF str = NULLV THEN "null" ELSE str)

base == "https://graph.microsoft.com/beta"

transcriptsListUrl(meetingId) ==
  base \o "/copilot/communications/realtimeActivityFeed/meetings/"
       \o encodeURIComponent(meetingId) \o "/transcripts"

transcriptDetailUrl(meetingId, transcriptId) ==
  base \o "/copilot/communications/realtimeActivityFeed/meetings/"
       \o encodeURIComponent(meetingId) \o "/transcripts/" \o encodeURIComponent(transcriptId)

\* The message of the Error fetchWithRetry throws: src/index.js names the url,
\* src/unnamed/part_001 does not.
HttpErrorMsg(v, url, r) ==
  IF v = "index"
  THEN "HTTP " \o ToString(r.status) \o " " \o r.statusText \o " for " \o url \o "\n"
         \o Txt(r.body)
  ELSE "HTTP " \o ToString(r.status) \o " " \o r.statusText \o "\n" \o Txt(r.body)

\* What listTranscripts and getTranscript do once fetchWithRetry has ended as f:
\* the Error it threw goes on to the caller; the response it returned goes to
\* the body decoder of the file.
Call(v, url, f) ==
  LET r == f.resps[Len(f.resps)]
  IN  IF f.st = "thrown" THEN Throw("HttpError", r.status, HttpErrorMsg(v, url, r))
      ELSE IF v = "decoder" THEN safeJson(r) ELSE resJson(r)

listTranscripts(v, meetingId, script) ==
  Call(v, transcriptsListUrl(meetingId), FetchWithRetry(script))

getTranscript(v, meetingId, transcriptId, script) ==
  Call(v, transcriptDetailUrl(meetingId, transcriptId), FetchWithRetry(script))

\* mutant: the refresh made hourly
TokenStaleHourly(t, acquiredAt) ==
  BigCmp(BigSub(t, acquiredAt), BigOf(60 * 60 * 1000)) > 0

\* Date.now() - tokenAcquiredAt > 50 * 60 * 1000
TokenStale(t, acquiredAt) == BigCmp(BigSub(t, acquiredAt), RefreshMs) > 0

\* Array.isArray(list?.value) ? list.value : (Array.isArray(list) ? list : [])
ItemsOf(list) ==
  IF list.valueIsArray THEN list.arr ELSE IF list.t = "array" THEN list.arr ELSE <<>>

\* t.id of src/index.js throws on a null element; t?.id does not.
ItemThrows(v, t) == v = "index" /\ ~t.isObj

\* t?.id ?? t?.transcriptId ?? t?.metadata?.id
ItemId(t) == Coalesce(Coalesce(t.id, t.transcriptId), t.metaId)

\* mutant: the seen set not consulted
ShouldSkipNoDedup(id, s) == ~TruthyStr(id)

\* if (!id || seen.has(id)) continue;
ShouldSkip(id, s) == ~TruthyStr(id) \/ id \in s

\* mutant: the id not recorded
SeenAddNothing(s, id) == s

\* seen.add(id)
SeenAdd(s, id) == s \cup {id}

\* decoder: the list is not processed when list?._empty or list?._raw
ListSkipped(v, list) == v = "decoder" /\ (HasEmpty(list) \/ HasRaw(list))

\* mutant: the detail summary printed by src/index.js only
ShowsSnippetIndexOnly(v, detail) == v = "index" /\ Truthy(detail)

\* mutant: the _raw marker not tested
ShowsSnippetIgnoringRaw(v, detail) ==
  IF v = "index" THEN Truthy(detail) ELSE ~HasEmpty(detail)

\* whether 'Detail snippet:' is printed for a detail that was returned
ShowsSnippet(v, detail) ==
  CASE v = "index" -> Truthy(detail)
    [] v = "decoder" -> ~HasEmpty(detail) /\ ~HasRaw(detail)
    [] v = "sdk" -> TRUE

\* whether an error of the detail call is caught by the per-fragment try/catch
DetailErrorCaught(v) == v \in {"index", "sdk"}

Bump(f, id) == [f EXCEPT ![id] = @ + 1]

-----------------------------------------------------------------------------
(* The pollers: run() *)

Init ==
  /\ pc = "start"
  /\ variant \in Variants
  /\ token = 0
  /\ tokenAcquiredAt = BigOf(0)
  /\ now = BigOf(0)
  /\ seen = {}
  /\ seen0 = {}
  /\ items = <<>>
  /\ idx = 1
  /\ err = NoErr
  /\ log = <<>>
  /\ iter = 0
  /\ announced = [i \in Ids |-> 0]
  /\ fetched = [i \in Ids |-> 0]
  /\ fw = FetchStart
  /\ pp = PrettyIdle
  /\ dec = DecIdle

\* let token = await getToken(); let tokenAcquiredAt = Date.now();
\* a rejection here rejects run(), and run().catch exits the process.
StartUpWith(outcomes) ==
  /\ pc = "start"
  /\ \E o \in outcomes :
       IF o.ok
          THEN /\ token' = token + 1
               /\ tokenAcquiredAt' = now
               /\ pc' = "loop"
               /\ err' = err
          ELSE /\ pc' = "exited"
               /\ err' = Err("AuthError", o.msg)
               /\ UNCHANGED <<token, tokenAcquiredAt>>
  /\ UNCHANGED <<variant, seen0, now, seen, items, idx, log, iter, announced, fetched,
                 fw, dec, pp>>

\* Top of while (true): the proactive refresh at the head of the try block.
IterBeginWith(outcomes) ==
  /\ pc = "loop"
  /\ IF ~TokenStale(now, tokenAcquiredAt)
     THEN /\ pc' = "list"
          /\ log' = <<Ev("begin", "", token, BigSub(now, tokenAcquiredAt))>>
          /\ UNCHANGED <<token, tokenAcquiredAt, err>>
     ELSE \E o \in outcomes :
            IF o.ok
               THEN /\ token' = token + 1
                    /\ tokenAcquiredAt' = now
                    /\ pc' = "list"
                    /\ err' = err
                    /\ log' = <<Ev("begin", "", token, BigSub(now, tokenAcquiredAt)),
                                Ev("getToken", "", token + 1, 1)>>
               ELSE /\ pc' = "catch"
                    /\ err' = Err("AuthError", o.msg)
                    /\ log' = <<Ev("begin", "", token, BigSub(now, tokenAcquiredAt)),
                                Ev("getToken", "", 0, 0)>>
                    /\ UNCHANGED <<token, tokenAcquiredAt>>
  /\ UNCHANGED <<variant, seen0, now, seen, items, idx, iter, announced, fetched,
                 fw, dec, pp>>

\* const list = await listTranscripts(token, RTA_MEETING_ID); and what follows it
\* up to the for loop. The clock has moved by the sleeps of fetchWithRetry.
\* d is how listTranscripts settled, elapsed the time its sleeps took.
ListSettled(d, elapsed) ==
  /\ log' = log \o <<Ev("list", "", token, 0),
                      Settled("listDone", "", token, [d EXCEPT !.val = JUndefined])>>
  /\ now' = BigAdd(now, elapsed, 0)
  /\ IF d.tag = "throw"
     THEN /\ err' = Err(d.kind, d.msg)
          /\ pc' = "catch"
          /\ UNCHANGED <<items, idx>>
     ELSE IF ListSkipped(variant, d.val)
     THEN /\ pc' = "sleepInTry"
          /\ UNCHANGED <<items, idx, err>>
     ELSE /\ items' = ItemsOf(d.val)
          /\ idx' = 1
          /\ pc' = IF ItemsOf(d.val) = <<>> THEN "sleep" ELSE "items"
          /\ err' = err

\* The list calls of the run without end: a Parsed body that lists the target,
\* anywhere among other items, which may be fragments never listed before, or
\* no Parsed body (204, or a failed request).
LiveListScripts ==
  {<<Ok(200, JsonCT, <<Doc("json", JEnvelope(a))>>)>> :
     a \in {b \in UNION {[1..n -> UNION {{c[i] : i \in DOMAIN c} : c \in ItemLists}
                                    \cup {Item(Fresh, UNDEF, UNDEF)}] : n \in 0..MaxItems} :
              \E i \in DOMAIN b : b[i] = Item(Target, UNDEF, UNDEF)}}
    \cup {<<Ok(204, NoHeader, <<>>)>>} \cup FailScripts \cup {Exhausted(429)}

\* The detail calls of the other fragments in the run without end: they always
\* fail.
LiveDetailScripts ==
  FailScripts \cup {Exhausted(429), <<Ok(200, JsonCT, <<Open, Text("bad")>>)>>}

\* await listTranscripts(token, RTA_MEETING_ID) for each poller and each script
\* of answers: how the call settles and how long its sleeps take.
ListOutcomes ==
  [v \in Variants, script \in ListScripts \cup LiveListScripts |->
     [d |-> listTranscripts(v, MeetingId, script), elapsed |-> Elapsed(script)]]

ListCallWith(scripts) ==
  /\ pc = "list"
  /\ \E script \in scripts :
       ListSettled(ListOutcomes[variant, script].d, ListOutcomes[variant, script].elapsed)
  /\ UNCHANGED <<variant, seen0, token, tokenAcquiredAt, seen, iter, announced,
                 fetched, fw, dec, pp>>

\* where the for loop goes after the item at idx
AfterItem == IF idx = Len(items) THEN "sleep" ELSE "items"

\* One turn of for (const t of items), up to the await of getTranscript.
ProcessItem ==
  /\ pc = "items"
  /\ LET t == items[idx]
         id == ItemId(t)
     IN  IF ItemThrows(variant, t)
         THEN /\ err' = Err("TypeError", "Cannot read properties of null (reading 'id')")
              /\ pc' = "catch"
              /\ UNCHANGED <<seen, idx, log, announced, fetched>>
         ELSE IF ShouldSkip(id, seen)
         THEN /\ idx' = idx + 1
              /\ pc' = AfterItem
              /\ UNCHANGED <<seen, err, log, announced, fetched>>
         ELSE /\ seen' = SeenAdd(seen, id)
              /\ announced' = Bump(announced, id)
              /\ fetched' = Bump(fetched, id)
              /\ log' = log \o <<Ev("mark", id, token, 0), Ev("new", id, token, 0),
                                   Ev("detail", id, token, 0)>>
              /\ pc' = "detail"
              /\ UNCHANGED <<idx, err>>
  /\ UNCHANGED <<variant, seen0, token, tokenAcquiredAt, now, items, iter,
                 fw, dec, pp>>

\* getTranscript settles: the rest of the turn of the for loop. The answers are
\* drawn from scripts, those to the request for Target from scriptsOfAwaited.
\* d is how getTranscript(token, RTA_MEETING_ID, id) settled, elapsed the time
\* its sleeps took.
DetailSettled(id, d, elapsed) ==
  /\ now' = BigAdd(now, elapsed, 0)
  /\ IF d.tag = "throw" /\ ~DetailErrorCaught(variant)
     THEN /\ err' = Err(d.kind, d.msg)
          /\ pc' = "catch"
          /\ log' = Append(log, Settled("detailDone", id, token, d))
          /\ UNCHANGED idx
     ELSE /\ idx' = idx + 1
          /\ pc' = AfterItem
          /\ err' = err
          /\ log' = log \o <<Settled("detailDone", id, token, d)>> \o
                    (IF d.tag = "throw" THEN <<Ev("warnDetail", id, token, 0)>>
                     ELSE IF ShowsSnippet(variant, d.val)
                     THEN <<Ev("snippet", id, token, 0)>>
                     ELSE <<>>)

\* await getTranscript(token, RTA_MEETING_ID, id) for each poller, each
\* identifier and each script of answers: how the call settles and how long
\* its sleeps take.
DetailOutcomes ==
  [v \in Variants, id \in Ids \cup {Fresh}, script \in DetailScripts \cup LiveDetailScripts |->
     [d |-> getTranscript(v, MeetingId, id, script), elapsed |-> Elapsed(script)]]

DetailDoneWith(scripts, scriptsOfAwaited) ==
  /\ pc = "detail"
  /\ \E script \in IF ItemId(items[idx]) = Target THEN scriptsOfAwaited ELSE scripts :
       DetailSettled(ItemId(items[idx]),
                     DetailOutcomes[variant, ItemId(items[idx]), script].d,
                     DetailOutcomes[variant, ItemId(items[idx]), script].elapsed)
  /\ UNCHANGED <<variant, seen0, token, tokenAcquiredAt, seen, items, iter,
                 announced, fetched, fw, dec, pp>>

\* catch (err) of the while body: refresh on '401' in the message, else log.
\* getToken is awaited inside the catch block: its rejection rejects run().
CatchWith(outcomes) ==
  /\ pc = "catch"
  /\ IF Includes401(err.msg)
     THEN \E o \in outcomes :
            IF o.ok
               THEN /\ token' = token + 1
                    /\ tokenAcquiredAt' = now
                    /\ pc' = "sleep"
                    /\ err' = err
                    /\ log' = Append(log, Ev("getToken", "", token + 1, 1))
               ELSE /\ pc' = "exited"
                    /\ err' = Err("AuthError", o.msg)
                    /\ log' = Append(log, Ev("getToken", "", 0, 0))
                    /\ UNCHANGED <<token, tokenAcquiredAt>>
     ELSE /\ pc' = "sleep"
          /\ log' = Append(log, Ev("pollError", "", token, 0))
          /\ UNCHANGED <<token, tokenAcquiredAt, err>>
  /\ UNCHANGED <<variant, seen0, now, seen, items, idx, iter, announced, fetched,
                 fw, dec, pp>>

\* mutant: the continue after the sleep inside the try left out
AfterEarlySleepFallsThrough == "sleep"

\* where continue leads after the sleep inside the try: the top of while (true)
AfterEarlySleep == "loop"

\* await sleep(Number(POLL_MS)): the iteration's log is closed by an entry that
\* names the sleep (kind), and control goes to next.
SleepFor(kind, next) ==
  /\ iter < MaxIter
  /\ \E d \in SleepAdvance : now' = BigAdd(now, d, 0)
  /\ iter' = iter + 1
  /\ pc' = next
  /\ log' = SelectSeq(log, LAMBDA x : x.e = "sleep")
               \o <<[Ev("sleep", "", token, 0) EXCEPT !.via = kind]>>
  /\ items' = <<>>
  /\ idx' = 1
  /\ err' = NoErr
  /\ seen0' = seen
  /\ UNCHANGED <<variant, token, tokenAcquiredAt, seen, announced, fetched,
                 fw, dec, pp>>

\* The sleep inside the try, on list?._empty and list?._raw, and its continue.
SleepInTry ==
  /\ pc = "sleepInTry"
  /\ SleepFor("try", AfterEarlySleep)

\* The sleep at the bottom of while (true), then the next turn.
Sleep ==
  /\ pc = "sleep"
  /\ SleepFor("bottom", "loop")

Next ==
  \/ StartUpWith(TokenOutcomes) \/ IterBeginWith(TokenOutcomes) \/ ListCallWith(ListScripts)
  \/ ProcessItem \/ DetailDoneWith(DetailScripts, DetailScripts) \/ CatchWith(TokenOutcomes)
  \/ SleepInTry \/ Sleep

Spec == Init /\ [][Next]_vars

-----------------------------------------------------------------------------
(* run() without end, against a server that goes on listing one fragment,   *)
(* among others                                                             *)

\* process.env.POLL_MS of the run without end: a poll interval as long as the
\* refresh age, so that the token comes of age from one sleep to the next.
LivePOLL_MS == "3000000"

\* How far Date.now() may have moved when a sleep ends, in a run without end:
\* by the delay of the timer, or (a timer that fires late) by 2 s more.
LiveSleepAdvance ==
  {BigOf(TimerDelay(Number(LivePOLL_MS))),
   BigAdd(BigOf(TimerDelay(Number(LivePOLL_MS))), BigOf(2000), 0)}

InitLive ==
  /\ pc = "start"
  /\ variant = "decoder"
  /\ token = 0
  /\ tokenAcquiredAt = BigOf(0)
  /\ now = BigOf(0)
  /\ seen = {}
  /\ seen0 = {}
  /\ items = <<>>
  /\ idx = 1
  /\ err = NoErr
  /\ log = <<>>
  /\ iter = 0
  /\ announced = [i \in Ids \cup {Fresh} |-> 0]
  /\ fetched = [i \in Ids \cup {Fresh} |-> 0]
  /\ fw = FetchStart
  /\ dec = DecIdle
  /\ pp = PrettyIdle

\* await sleep(Number(POLL_MS)) in a run without end. run() reads the clock only
\* as Date.now() - tokenAcquiredAt and compares tokens only within an iteration,
\* so the clock is kept relative to the last acquisition and the token is
\* renumbered 1; the sleeps are not counted.  A fragment listed in this iteration
\* for the first time and the only time is never looked up in the seen set
\* again, and the next such fragment is another one: Fresh leaves the set and
\* its counts start again.
LiveSleepFor(kind, next) ==
  /\ \E d \in LiveSleepAdvance : now' = BigAdd(BigSub(now, tokenAcquiredAt), d, 0)
  /\ tokenAcquiredAt' = BigOf(0)
  /\ token' = 1
  /\ pc' = next
  /\ log' = <<[Ev("sleep", "", 1, 0) EXCEPT !.via = kind]>>
  /\ items' = <<>>
  /\ idx' = 1
  /\ err' = NoErr
  /\ seen' = seen \ {Fresh}
  /\ seen0' = seen \ {Fresh}
  /\ announced' = [announced EXCEPT ![Fresh] = 0]
  /\ fetched' = [fetched EXCEPT ![Fresh] = 0]
  /\ UNCHANGED <<variant, iter, fw, dec, pp>>

\* getToken succeeds every time.
NextLive ==
  \/ StartUpWith({o \in TokenOutcomes : o.ok}) \/ IterBeginWith({o \in TokenOutcomes : o.ok})
  \/ ListCallWith(LiveListScripts)
  \/ ProcessItem \/ DetailDoneWith(LiveDetailScripts, DetailScripts)
  \/ CatchWith({o \in TokenOutcomes : o.ok})
  \/ (pc = "sleepInTry" /\ LiveSleepFor("try", AfterEarlySleep))
  \/ (pc = "sleep" /\ LiveSleepFor("bottom", "loop"))

\* run() is one sequential async function: once the promise it awaits settles,
\* the event loop resumes it, so a step that stays possible is taken.
SpecLive == InitLive /\ [][NextLive]_vars /\ WF_vars(NextLive)

-----------------------------------------------------------------------------
(* run() of src/unnamed/part_000: the requests go through the Kiota adapter *)

\* What adapter.sendPrimitiveAsync may do, as run() sees it: resolve with any
\* value (undefined too), or reject with an error of the library.
SdkOutcomes(vals) ==
  {Return("resolved", v) : v \in vals \cup {JUndefined}}
    \cup {Throw("ApiError", 401, "401 Unauthorized"), Throw("Error", 0, "fetch failed")}

InitSdk ==
  /\ pc = "start"
  /\ variant = "sdk"
  /\ token = 0
  /\ tokenAcquiredAt = BigOf(0)
  /\ now = BigOf(0)
  /\ seen = {}
  /\ seen0 = {}
  /\ items = <<>>
  /\ idx = 1
  /\ err = NoErr
  /\ log = <<>>
  /\ iter = 0
  /\ announced = [i \in Ids |-> 0]
  /\ fetched = [i \in Ids |-> 0]
  /\ fw = FetchStart
  /\ dec = DecIdle
  /\ pp = PrettyIdle

\* run() up to while (true): the banner and const seen = new Set()
SdkStartUp ==
  /\ pc = "start"
  /\ pc' = "loop"
  /\ UNCHANGED <<variant, token, tokenAcquiredAt, now, seen, seen0, items, idx, err, log,
                 iter, announced, fetched, fw, dec, pp>>

\* const list = await listTranscriptsRaw(RTA_MEETING_ID); and what follows it up
\* to the for loop.
SdkListCall ==
  /\ pc = "loop"
  /\ \E d \in SdkOutcomes(ListVals) :
       LET its == ItemsOf(d.val)
       IN  /\ log' = <<Ev("begin", "", token, 0), Ev("list", "", token, 0),
                       Settled("listDone", "", token, [d EXCEPT !.val = JUndefined])>>
           /\ IF d.tag = "throw"
              THEN /\ err' = Err(d.kind, d.msg)
                   /\ pc' = "catch"
                   /\ UNCHANGED <<items, idx>>
              ELSE /\ items' = its
                   /\ idx' = 1
                   /\ pc' = IF its = <<>> THEN "sleep" ELSE "items"
                   /\ err' = err
  /\ UNCHANGED <<variant, seen0, token, tokenAcquiredAt, now, seen, iter, announced,
                 fetched, fw, dec, pp>>

\* getTranscriptRaw settles inside the per-fragment try: 'Detail snippet:' and
\* pretty(detail) whatever the value, or the warning of the catch.
SdkDetailDone ==
  /\ pc = "detail"
  /\ \E d \in SdkOutcomes(DetailVals) :
       LET id == ItemId(items[idx])
       IN  /\ idx' = idx + 1
           /\ pc' = AfterItem
           /\ log' = log \o <<Settled("detailDone", id, token, d)>> \o
                     (IF d.tag = "throw" THEN <<Ev("warnDetail", id, token, 0)>>
                      ELSE IF ShowsSnippet(variant, d.val)
                      THEN <<Ev("snippet", id, token, 0)>>
                      ELSE <<>>)
  /\ UNCHANGED <<variant, seen0, token, tokenAcquiredAt, now, seen, items, err, iter,
                 announced, fetched, fw, dec, pp>>

\* catch (e) of the while body: console.warn('Poll error:', e.message)
SdkCatch ==
  /\ pc = "catch"
  /\ pc' = "sleep"
  /\ log' = Append(log, Ev("pollError", "", token, 0))
  /\ UNCHANGED <<variant, seen0, token, tokenAcquiredAt, now, seen, items, idx, err, iter,
                 announced, fetched, fw, dec, pp>>

NextSdk ==
  \/ SdkStartUp \/ SdkListCall \/ ProcessItem \/ SdkDetailDone \/ SdkCatch \/ Sleep

SpecSdk == InitSdk /\ [][NextSdk]_vars

-----------------------------------------------------------------------------
(* One fetchWithRetry call against every server *)

InitFetch ==
  /\ pc = "fetch"
  /\ variant = "decoder"
  /\ token = 0
  /\ tokenAcquiredAt = 0
  /\ now = 0
  /\ seen = {}
  /\ seen0 = {}
  /\ items = <<>>
  /\ idx = 1
  /\ err = NoErr
  /\ log = <<>>
  /\ iter = 0
  /\ announced = [i \in Ids |-> 0]
  /\ fetched = [i \in Ids |-> 0]
  /\ fw = FetchStart
  /\ pp = PrettyIdle
  /\ dec = DecIdle

\* One attempt: const res = await fetch(url, options) and the rest of the turn.
FetchAttempt ==
  /\ fw.st = "running"
  /\ \E r \in FetchResponses : fw' = FetchStep(fw, r)
  /\ UNCHANGED <<pollerVars, dec, pp>>

SpecFetch == InitFetch /\ [][FetchAttempt]_vars

-----------------------------------------------------------------------------
(* One safeJson call on every response *)

InitDecode ==
  /\ pc = "decode"
  /\ variant = "decoder"
  /\ token = 0
  /\ tokenAcquiredAt = 0
  /\ now = 0
  /\ seen = {}
  /\ seen0 = {}
  /\ items = <<>>
  /\ idx = 1
  /\ err = NoErr
  /\ log = <<>>
  /\ iter = 0
  /\ announced = [i \in Ids |-> 0]
  /\ fetched = [i \in Ids |-> 0]
  /\ fw = FetchStart
  /\ pp = PrettyIdle
  /\ dec \in {[res |-> r, out |-> Return("", JUndefined), done |-> FALSE] : r \in DecodeInputs}

Decode ==
  /\ ~dec.done
  /\ dec' = [dec EXCEPT !.out = safeJson(dec.res), !.done = TRUE]
  /\ UNCHANGED <<pollerVars, fw, pp>>

SpecDecode == InitDecode /\ [][Decode]_vars

-----------------------------------------------------------------------------
(* One prettyPrintTranscript call on every object *)

InitPretty ==
  /\ pc = "pretty"
  /\ variant \in Variants \cup {"sdk"}
  /\ token = 0
  /\ tokenAcquiredAt = 0
  /\ now = 0
  /\ seen = {}
  /\ seen0 = {}
  /\ items = <<>>
  /\ idx = 1
  /\ err = NoErr
  /\ log = <<>>
  /\ iter = 0
  /\ announced = [i \in Ids |-> 0]
  /\ fetched = [i \in Ids |-> 0]
  /\ fw = FetchStart
  /\ dec = DecIdle
  /\ \E S \in KeySets(MaxKeys) :
       \E kinds \in [S -> {"null", "empty", "string"}] :
         \E altIsArray \in IF "alternatives[0].text" \in S THEN BOOLEAN ELSE {TRUE} :
           pp = [PrettyIdle EXCEPT !.obj = PrettyObjOf(S, kinds, altIsArray)]

Pretty ==
  /\ ~pp.done
  /\ pp' = [pp EXCEPT !.out = IF variant = "sdk" THEN pretty(pp.obj)
                                 ELSE prettyPrintTranscript(variant, pp.obj),
                        !.done = TRUE]
  /\ UNCHANGED <<pollerVars, fw, dec>>

SpecPretty == InitPretty /\ [][Pretty]_vars

-----------------------------------------------------------------------------
(* Claims about fetchWithRetry (specification SpecFetch) *)

\* C4: one fetchWithRetry call makes at most 5 fetch attempts; it sleeps only
\* between two attempts, never after the last one; and when every response is a
\* 429 or a 503 it throws after exactly 5 attempts and exactly 4 sleeps.
C4_BoundedRetry ==
  /\ fw.attempt <= 5
  /\ Len(fw.resps) = fw.attempt
  /\ (fw.st = "running" => Len(fw.waits) = fw.attempt /\ fw.attempt < 5)
  /\ (fw.st # "running" => Len(fw.waits) = fw.attempt - 1)
  /\ (fw.st # "running" /\ (\A i \in DOMAIN fw.resps : fw.resps[i].status \in {429, 503})
        => fw.st = "thrown" /\ fw.attempt = 5 /\ Len(fw.waits) = 4)

C4_Witness ==
  /\ fw.st = "thrown"
  /\ fw.attempt = 5
  /\ \A i \in DOMAIN fw.resps : fw.resps[i].status = 429

\* the responses [503 with Retry-After: 2, 503 without the header, 200]
C5_Case ==
  /\ Len(fw.resps) = 3
  /\ fw.resps[1] = Throttled(503, Header("2"))
  /\ fw.resps[2] = Throttled(503, NoHeader)
  /\ fw.resps[3].status = 200

\* C5 as stated: on [503 Retry-After: 2, 503, 200] the call waits 2000 ms and then
\* 2000 ms, and returns the 200 after 3 attempts.
C5_Original ==
  C5_Case => fw.waits = <<Num(2000), Num(2000)>> /\ fw.st = "returned" /\ fw.attempt = 3

\* C5 amended: on [503 Retry-After: 2, 503, 200] the call waits 2000 ms and then
\* 4000 ms (1000 * 2^2, the failed attempt being the second), and returns the 200
\* after 3 attempts.
C5_Amended ==
  C5_Case => fw.waits = <<Num(2000), Num(4000)>> /\ fw.st = "returned" /\ fw.attempt = 3

C5_Witness == C5_Case /\ fw.st = "returned"

\* 1000.9999999999999, the double 8804673646113783 * 2^-43, and the delay of its
\* timer
C6_Near1001 == Dbl(FALSE, <<32767, 32767, 8191, 250>>, 0 - 43)
C6_Timer1001 == TimerDelay(C6_Near1001)

\* the whole numbers of milliseconds of the claim, as numbers
C6_Ms == [ms \in {0, 2000, 2500, 4000, 8000, 16000} |-> Num(ms)]

\* C6: the wait after attempt n (n < 5) that got a 429 or 503 is s * 1000 ms when
\* the response carries Retry-After: s (the product of doubles: 1.001 gives
\* 1000.9999999999999, a timer of 1000 ms; NaN when s is not a number), and
\* without the header 2000, 4000, 8000, 16000 ms for n = 1..4.
C6_BackoffFormula ==
  \A n \in DOMAIN fw.waits :
    LET ra == fw.resps[n].ra
        w == fw.waits[n]
    IN  /\ n < 5
        /\ fw.resps[n].status \in {429, 503}
        /\ (ra = Header("0") => w = C6_Ms[0])
        /\ (ra = Header("2") => w = C6_Ms[2000])
        /\ (ra = Header("1.001") => w = C6_Near1001 /\ C6_Timer1001 = 1000)
        /\ (ra = Header("2.5") => w = C6_Ms[2500])
        /\ (ra = Header("Wed, 21 Oct 2015 07:28:00 GMT") => w = NaN)
        /\ (ra \in {NoHeader, Header("")} =>
              w = C6_Ms[CASE n = 1 -> 2000 [] n = 2 -> 4000 [] n = 3 -> 8000 [] n = 4 -> 16000])

C6_Witness == fw.waits = <<C6_Near1001, C6_Ms[4000], C6_Ms[2500], C6_Ms[16000]>>

\* C13: a 2xx response is returned on the attempt that received it, and any other
\* status except 429 and 503 is thrown on the attempt that received it; in both
\* cases no sleep follows and no further request is made (a failure of the first
\* attempt throws after exactly one request and no sleep).
C13_FailFast ==
  \A i \in DOMAIN fw.resps :
    LET status == fw.resps[i].status
    IN  /\ (status >= 200 /\ status <= 299) =>
              /\ fw.st = "returned"
              /\ fw.attempt = i /\ Len(fw.resps) = i /\ Len(fw.waits) = i - 1
        /\ (status \notin 200..299 /\ status \notin {429, 503}) =>
              /\ fw.st = "thrown"
              /\ fw.attempt = i /\ Len(fw.resps) = i /\ Len(fw.waits) = i - 1

\* a 404 on the first attempt: thrown after one request and no sleep
C13_Witness ==
  /\ fw.st = "thrown"
  /\ fw.attempt = 1
  /\ fw.resps[1].status = 404
  /\ fw.waits = <<>>

-----------------------------------------------------------------------------
(* Claims about safeJson (specification SpecDecode) *)

\* the body is empty or only whitespace
C7_Blank(body) == \A i \in DOMAIN body : body[i].kind \in {"ws", "uws"}

\* the body is one JSON text with only JSON whitespace around it
C7_IsJson(body) ==
  LET core == SelectSeq(body, LAMBDA t : t.kind # "ws")
  IN  Len(core) = 1 /\ core[1].kind = "doc"

\* C7: safeJson gives Empty for status 202 or 204; else Empty for an empty or
\* whitespace-only body; else Raw(text) when the content type does not contain
\* application/json; else Parsed(json) when the body parses, and throws a
\* DecodeError when it does not.
C7_DecisionTable ==
  dec.done =>
    LET r == dec.res
        o == dec.out
        jsonCT == r.ct.present /\ Includes(r.ct.v, "application/json")
    IN  IF r.status \in {202, 204} \/ C7_Blank(r.body)
        THEN o.tag = "return" /\ o.via = "Empty" /\ o.val = EmptyMarker(r.status)
        ELSE IF ~jsonCT
        THEN /\ o.tag = "return" /\ o.via = "Raw"
             /\ o.val._raw = Txt(r.body)
             /\ ~o.val._empty
        ELSE IF C7_IsJson(r.body)
        THEN /\ o.tag = "return" /\ o.via = "Parsed"
             /\ o.val = SelectSeq(r.body, LAMBDA t : t.kind = "doc")[1].val
        ELSE o.tag = "throw" /\ o.kind = "DecodeError"

\* a whitespace-only body with a non-JSON content type decoded to Empty
C7_Witness ==
  /\ dec.done
  /\ dec.res.status = 200
  /\ dec.res.ct = TextCT
  /\ dec.res.body = <<Ws("\n"), Uws("\f ﻿"), Ws(" ")>>
  /\ dec.out.via = "Empty"

-----------------------------------------------------------------------------
(* Claims about the pollers (specification Spec) *)

\* the positions of the log with an entry e for id
LogAt(e, id) == {i \in DOMAIN log : log[i].e = e /\ log[i].id = id}

\* the ids of the truthy identifiers of the list being processed
ListedIds == {ItemId(items[j]) : j \in {k \in DOMAIN items : TruthyStr(ItemId(items[k]))}}

\* C1: every identifier is announced at most once and fetched at most once in a
\* run, and an identifier that is in the seen set is not announced or fetched by
\* any later step.
C1_AtMostOnce ==
  /\ [](\A id \in Ids : announced[id] <= 1 /\ fetched[id] <= 1)
  /\ [][\A id \in seen : announced'[id] = announced[id] /\ fetched'[id] = fetched[id]]_vars

\* a later iteration got the list [f1, f1] with f1 already seen, and announced nothing
C1_Witness ==
  /\ iter >= 1
  /\ pc = "sleep"
  /\ Len(items) = 2
  /\ ItemId(items[1]) = "f1" /\ ItemId(items[2]) = "f1"
  /\ announced["f1"] = 1 /\ fetched["f1"] = 1
  /\ LogAt("new", "f1") = {}

\* C2: in the decoder poller a failed detail call does not abort the iteration:
\* when the iteration reaches its sleep, every identifier of the list response
\* has been processed (is in the seen set).
C2_SiblingsProcessed ==
  (variant = "decoder" /\ pc = "sleep") => \A id \in ListedIds : id \in seen

\* C3: once the startup token acquisition has succeeded, run() never rejects and
\* the process never exits.
C3_NeverExits == token # 0 => pc # "exited"

\* C8 as stated: in an iteration that starts 50 minutes or more after the last
\* acquisition, getToken is called first, and every request of the iteration comes
\* after it and carries the token it returned.
C8_Original ==
  (log # <<>> /\ log[1].e = "begin" /\ BigCmp(log[1].n, RefreshMs) >= 0) =>
    /\ Len(log) >= 2 /\ log[2].e = "getToken"
    /\ \A i \in DOMAIN log : log[i].e \in {"list", "detail"} =>
         /\ i > 2
         /\ log[2].n = 1
         /\ log[i].tok = log[2].tok
         /\ log[i].tok # log[1].tok

\* C8 amended: in an iteration that starts more than 50 minutes after the last
\* acquisition, getToken is called first, and every request of the iteration comes
\* after its success and carries the token it returned (none is made if it failed).
C8_Amended ==
  (log # <<>> /\ log[1].e = "begin" /\ BigCmp(log[1].n, RefreshMs) > 0) =>
    /\ Len(log) >= 2 /\ log[2].e = "getToken"
    /\ \A i \in DOMAIN log : log[i].e \in {"list", "detail"} =>
         /\ i > 2
         /\ log[2].n = 1
         /\ log[i].tok = log[2].tok
         /\ log[i].tok # log[1].tok

\* an iteration that began stale has made its list and a detail request
C8_Witness ==
  /\ log # <<>> /\ log[1].e = "begin" /\ BigCmp(log[1].n, RefreshMs) > 0
  /\ \E i \in DOMAIN log : log[i].e = "list"
  /\ \E i \in DOMAIN log : log[i].e = "detail"

\* the parts of C9 that do not depend on the payload: the blocks of an id are
\* printed in the order NEW, Detail snippet, once each, and an id announced in an
\* earlier iteration has no entry in this one
C9_Once ==
  /\ \A id \in Ids :
       /\ announced[id] <= 1 /\ fetched[id] <= 1
       /\ Cardinality(LogAt("snippet", id)) <= Cardinality(LogAt("new", id))
       /\ Cardinality(LogAt("new", id)) <= 1
       /\ \A i \in LogAt("snippet", id) : \E j \in LogAt("new", id) : j < i
       /\ (announced[id] = 1 /\ LogAt("new", id) = {}) =>
            \A i \in DOMAIN log : log[i].id # id

\* C9 as stated: a detail call that returned a parsed JSON payload is followed by
\* exactly one Detail snippet block, after exactly one NEW block, for its id.
C9_Original ==
  /\ C9_Once
  /\ \A i \in DOMAIN log :
       (log[i].e = "detailDone" /\ log[i].via = "Parsed") =>
         /\ LogAt("new", log[i].id) = {i - 2}
         /\ LogAt("snippet", log[i].id) = {i + 1}

\* C9 amended: a detail call that returned a parsed JSON payload that is an
\* object or an array without a truthy _empty or _raw member is followed by
\* exactly one Detail snippet block, after exactly one NEW block, for its id.
C9_Amended ==
  /\ C9_Once
  /\ \A i \in DOMAIN log :
       (/\ log[i].e = "detailDone" /\ log[i].via = "Parsed"
        /\ log[i].val.t \in {"object", "array"}
        /\ ~log[i].val._empty /\ log[i].val._raw = "") =>
         /\ LogAt("new", log[i].id) = {i - 2}
         /\ LogAt("snippet", log[i].id) = {i + 1}

\* a later iteration got [f1, f2]: f1, seen before, left no entry; f2 was announced
\* and its parsed detail printed
C9_Witness ==
  /\ iter >= 1
  /\ pc = "sleep"
  /\ ListedIds = {"f1", "f2"}
  /\ announced["f1"] = 1
  /\ \A i \in DOMAIN log : log[i].id # "f1"
  /\ \E i \in LogAt("detailDone", "f2") : log[i].via = "Parsed"
  /\ LogAt("snippet", "f2") # {}

\* C10: when a list or detail request of the iteration has failed with status
\* 401, the iteration ends in its sleep with getToken called exactly once after
\* the failure, its token and the acquisition time stored, and no request issued
\* after the failure.
C10_ReactiveRefresh ==
  \A i \in DOMAIN log :
    (pc \in {"sleep", "exited"} /\ log[i].e \in {"listDone", "detailDone"} /\ log[i].n = 401) =>
      /\ pc = "sleep"
      /\ Cardinality({j \in DOMAIN log : j > i /\ log[j].e = "getToken"}) = 1
      /\ \E j \in DOMAIN log :
           /\ j > i /\ log[j].e = "getToken" /\ log[j].n = 1
           /\ token = log[j].tok /\ tokenAcquiredAt = now
      /\ \A j \in DOMAIN log : j > i => log[j].e \notin {"list", "detail"}

\* C11: an iteration whose list call did not return a Parsed body (it returned
\* Empty or Raw, or threw an HttpError or a decoding error) announces nothing,
\* requests no detail, leaves the seen set as it was, and goes on to its sleep:
\* the process does not exit.
C11_NonParsedList ==
  \A i \in DOMAIN log :
    (log[i].e = "listDone" /\ log[i].via # "Parsed") =>
      /\ \A j \in DOMAIN log : log[j].e \notin {"new", "detail"}
      /\ seen = seen0
      /\ pc # "exited"

\* the three candidate members of a list item, in order
C14_Fields(t) == <<t.id, t.transcriptId, t.metaId>>

\* the first of them that is neither null nor undefined, or undefined
C14_Key(t) ==
  LET f == C14_Fields(t)
      R == {i \in 1..3 : f[i] \notin {"<undefined>", "<null>"}}
  IN  IF R = {} THEN "<undefined>" ELSE f[CHOOSE i \in R : \A j \in R : i <= j]

\* at least one of them holds a usable identifier
C14_Usable(t) == \E i \in 1..3 : C14_Fields(t)[i] \notin {"<undefined>", "<null>", ""}

\* C14: the key of an item is the first of id, transcriptId, metadata.id that is
\* neither null nor undefined. Every item the for loop has passed that holds a
\* usable identifier has been processed under that key (it is in the seen set);
\* only such items are announced, fetched or added to the seen set; and when the
\* iteration reaches its sleep, the items that follow an item with no identifier
\* have been processed too.
C14_IdExtraction ==
  LET keys(J) == {C14_Key(items[j]) : j \in {k \in J : C14_Usable(items[k])}}
      logged(e) == {log[i].id : i \in {k \in DOMAIN log : log[k].e = e}}
  IN  /\ pc \in {"items", "detail", "sleep"} =>
            /\ keys(1..(idx - 1)) \subseteq seen
            /\ pc = "detail" => C14_Usable(items[idx]) /\ C14_Key(items[idx]) \in seen
      /\ logged("new") \subseteq keys(DOMAIN items)
      /\ logged("detail") \subseteq keys(DOMAIN items)
      /\ seen = seen0 \cup logged("new")
      /\ pc = "sleep" =>
            \A j \in DOMAIN items : ~C14_Usable(items[j]) =>
              keys({k \in DOMAIN items : k > j}) \subseteq seen

\* C15: an identifier is added to the seen set before its summary is printed
\* and before its detail is requested; whatever becomes of the detail request,
\* the identifier stays in the seen set; the seen set never shrinks; and the
\* detail of an identifier in the seen set is never requested again.
C15_MarkBeforeFetch ==
  /\ [](/\ \A i \in DOMAIN log :
            log[i].e \in {"new", "detail"} =>
              \E j \in DOMAIN log : j < i /\ log[j].e = "mark" /\ log[j].id = log[i].id
        /\ \A i \in DOMAIN log :
            log[i].e \in {"mark", "new", "detail", "detailDone", "warnDetail", "snippet"} =>
              log[i].id \in seen
        /\ \A id \in Ids : fetched[id] > 0 => id \in seen)
  /\ [][/\ seen \subseteq seen'
        /\ \A id \in seen : fetched'[id] = fetched[id]]_vars

\* the detail request of f1 failed or gave no payload, f1 came a second time in
\* the same list, and it was not requested again
C15_Witness ==
  /\ pc = "sleep"
  /\ Len(items) = 2
  /\ ItemId(items[1]) = "f1" /\ ItemId(items[2]) = "f1"
  /\ \E i \in LogAt("detailDone", "f1") : log[i].via # "Parsed"
  /\ "f1" \in seen
  /\ fetched["f1"] = 1

\* C16: in the decoder poller, a detail response that decoded to Empty or Raw
\* prints no Detail snippet for its fragment and raises no error: the for loop
\* goes on with the next item of the same list (or, after the last item, to the
\* sleep); and a Detail snippet is printed only right after a detail response
\* that decoded to Parsed, for the same fragment.
C16_DetailAbsent ==
  variant = "decoder" =>
    \A i \in DOMAIN log :
      /\ (log[i].e = "detailDone" /\ log[i].via \in {"Empty", "Raw"}) =>
            /\ LogAt("snippet", log[i].id) = {}
            /\ LogAt("warnDetail", log[i].id) = {}
            /\ IF i = Len(log)
               THEN /\ err.kind = "none"
                    /\ pc = IF idx <= Len(items) THEN "items" ELSE "sleep"
                    /\ \E k \in 1..(idx - 1) : ItemId(items[k]) = log[i].id
               ELSE log[i + 1].e = "mark"
      /\ log[i].e = "snippet" =>
            /\ i > 1
            /\ log[i - 1].e = "detailDone" /\ log[i - 1].via = "Parsed"
            /\ log[i - 1].id = log[i].id

\* the detail of f1 decoded to Empty or Raw, and f2, next in the same list, was
\* announced, fetched and its parsed detail printed
C16_Witness ==
  /\ variant = "decoder"
  /\ \E i \in LogAt("detailDone", "f1") :
       /\ log[i].via \in {"Empty", "Raw"}
       /\ i < Len(log) /\ log[i + 1] = Ev("mark", "f2", token, 0)
  /\ LogAt("snippet", "f2") # {}

\* C17: every iteration sleeps exactly once before the next one starts, whatever
\* its path (the sleep inside the try for an Empty or Raw list, the sleep at the
\* bottom otherwise): at the top of the loop the iteration just ended has slept
\* exactly once, and an iteration under way has not slept yet and has made at most
\* one list request.
C17_OneSleep ==
  LET at(e) == {i \in DOMAIN log : log[i].e = e}
  IN  /\ pc = "loop" =>
            IF iter = 0 THEN log = <<>>
            ELSE Len(log) = 1 /\ log[1].e = "sleep" /\ log[1].via \in {"try", "bottom"}
      /\ pc \in {"list", "items", "detail", "catch", "sleepInTry", "sleep"} =>
            /\ at("sleep") = {}
            /\ Cardinality(at("begin")) = 1
            /\ Cardinality(at("list")) <= 1
      /\ pc = "sleepInTry" =>
            /\ variant = "decoder"
            /\ at("listDone") # {} /\ at("mark") = {} /\ at("pollError") = {}

\* the decoder poller is back at the top of the loop after the sleep inside the
\* try (the list was Empty or Raw), having slept once in that iteration
C17_Witness ==
  /\ variant = "decoder"
  /\ pc = "loop"
  /\ iter = 2
  /\ log = <<[Ev("sleep", "", token, 0) EXCEPT !.via = "try"]>>

\* C19: getToken is called from the catch block only after a request that
\* received status 401: the list or detail call whose error reached the catch
\* block threw an HttpError of status 401. (The entries of the log after the
\* second are those that follow the proactive refresh.)
C19_OnlyReal401 ==
  \A i \in DOMAIN log :
    (i > 2 /\ log[i].e = "getToken") =>
      \A j \in 1..(i - 1) :
        (log[j].e \in {"listDone", "detailDone"} /\ log[j].via = "throw") => log[j].n = 401

\* C20: in an iteration that began with a token more than 50 minutes old and
\* whose getToken failed, no list or detail request is made, the stored token and
\* acquisition time stay as they were, the iteration goes on to its sleep (the
\* process does not exit) with the token still stale, so that the next iteration
\* refreshes again; and in an iteration that began stale, a list request is made
\* only with a token acquired in that iteration.
C20_FailedProactive ==
  (Len(log) >= 2 /\ log[1].e = "begin" /\ BigCmp(log[1].n, BigOf(3000000)) > 0) =>
    /\ \A i \in DOMAIN log : log[i].e = "list" => log[i].tok # log[1].tok
    /\ (log[2].e = "getToken" /\ log[2].n = 0) =>
          /\ \A i \in DOMAIN log : log[i].e \notin {"list", "detail"}
          /\ token = log[1].tok
          /\ BigSub(now, tokenAcquiredAt) = log[1].n
          /\ pc # "exited"

-----------------------------------------------------------------------------
(* Claim about progress (specification SpecLive) *)

\* C18: in the decoder poller, when token acquisition always succeeds, every
\* Parsed list response lists the target fragment, and the detail requests of
\* all other fragments fail: if list calls return a Parsed body again and again,
\* the target is eventually announced.
C18_Progress == []<>(pc = "items") => <>(announced[Target] > 0)

-----------------------------------------------------------------------------
(* Claims about prettyPrintTranscript (specification SpecPretty) *)

\* the value of the first of the members ks that is neither null nor undefined
\* (alternatives[0].text counting when alternatives is an array), or undefined
C12_First(obj, ks) ==
  LET has(i) == /\ obj.f[ks[i]] \notin {"<undefined>", "<null>"}
                /\ (ks[i] = "alternatives[0].text" => obj.altIsArray)
      R == {i \in DOMAIN ks : has(i)}
  IN  IF R = {} THEN "<undefined>"
      ELSE obj.f[ks[CHOOSE i \in R : \A j \in R : i <= j]]

\* the values shown under a label in the header line
C12_Shown(label) ==
  {pp.out.header[i].v : i \in {j \in DOMAIN pp.out.header : pp.out.header[j].label = label}}

\* the object of the spec's example
C12_Example ==
  PrettyObj([k \in PrettyKeys |->
               CASE k = "transcriptId" -> "x" [] k = "locale" -> "en-US"
                 [] k = "content" -> "hi" [] OTHER -> "<undefined>"], TRUE)

\* C12: every field prettyPrintTranscript shows holds the value of the first of
\* its candidate members, in the documented order, that is neither null nor
\* undefined; the id shows 'unknown' when none is; any other field with no such
\* member is not shown; and {transcriptId:'x', locale:'en-US', content:'hi'}
\* shows id x, lang en-US and text hi, and neither created nor speaker.
C12_FieldFallback ==
  pp.done =>
    LET o == pp.obj
        arrayAlt == o.altIsArray \/ o.f["alternatives[0].text"] = "<undefined>"
    IN  /\ Len(pp.out.header) >= 1 /\ pp.out.header[1].label = "id"
        /\ C12_Shown("id") =
             {IF C12_First(o, IdKeys) = "<undefined>" THEN "unknown" ELSE C12_First(o, IdKeys)}
        /\ C12_Shown("created") \subseteq {C12_First(o, CreatedKeys)} \ {"<undefined>"}
        /\ C12_Shown("lang") \subseteq {C12_First(o, LangKeys)} \ {"<undefined>"}
        /\ C12_Shown("speaker") \subseteq {C12_First(o, SpeakerKeys)} \ {"<undefined>"}
        /\ arrayAlt => Range(pp.out.text) \subseteq {C12_First(o, TextKeys)} \ {"<undefined>"}
        /\ o = C12_Example =>
             /\ pp.out.header = <<[label |-> "id", v |-> "x"], [label |-> "lang", v |-> "en-US"]>>
             /\ pp.out.text = <<"hi">>

\* the spec's example has been printed
C12_Witness ==
  /\ pp.done
  /\ pp.obj = C12_Example
  /\ pp.out.text = <<"hi">>

====
